---- MODULE Spec2Model ----
(***************************************************************************)
(* Model of BotProxyPlugin (src/main.py): the request/response correlation *)
(* engine of astrbot_plugin_universal.                                     *)
(*                                                                         *)
(* The plugin runs on one asyncio event loop.  A coroutine runs without    *)
(* interruption between two awaits, so every action below is the code      *)
(* between two suspension points of one coroutine:                         *)
(*   use_bot_action   suspends at  await send_group_message   (line 129)   *)
(*   _wait_timeout    suspends at  await asyncio.sleep        (line 146)   *)
(*                    and at       await send_group_message   (line 152)   *)
(*   on_all_message   suspends at  await send_group_message   (line 183)   *)
(* A send is recorded in `sent` when the coroutine issues it; the await    *)
(* returns in a later step.  time.time() is the integer clock `now`, which *)
(* never runs backwards.  Identifiers of bots and groups are integers on   *)
(* both sides of every comparison.  The host's send_group_message returns  *)
(* normally, and asyncio.sleep(d) returns no earlier than d seconds after  *)
(* the call (later is possible: the loop may be busy).  terminate does not *)
(* cancel the tasks in flight, and nothing in the code refuses a call that *)
(* comes after it.                                                         *)
(***************************************************************************)
EXTENDS Integers, Sequences, FiniteSets, Bags, TLC

(***************************************************************************)
(* Bounds of the model.                                                    *)
(***************************************************************************)
MaxTime == 2          \* last clock value of Spec
MaxRateTime == 61     \* last clock value of SpecRate
MaxAdmits == 3        \* admitted _rate_limited calls recorded in SpecRate
MaxRate == 2          \* SpecRate configures rate_per_minute in 0..MaxRate
Timeout == 1          \* the configured "timeout" (seconds)

(***************************************************************************)
(* Program constants and configuration.                                    *)
(***************************************************************************)
Window == 60
RatePerMinute == 2    \* the configured "rate_per_minute" of Spec
timeout_message == "timeout_message"
unreachable_message == "unreachable_message"
RateLimitNotice == "rate limited"
NotFoundNotice == "not found"
NoResult == "<nothing>"
ResultMarker == "result:"
AtMode == "@"

\* self.actions, as _parse_actions leaves it: the Actions in configuration
\* order.  desc is a sequence of characters; groups may be empty.
actions ==
    << [bot_id |-> 1001, groups |-> <<2001, 2002>>, command |-> "ping",
        return_mode |-> "", desc |-> <<"a", "b">>, timeout |-> Timeout],
       [bot_id |-> 1002, groups |-> <<2001>>, command |-> "draw",
        return_mode |-> AtMode, desc |-> <<"b", "c">>, timeout |-> Timeout],
       [bot_id |-> 1001, groups |-> <<>>, command |-> "noop",
        return_mode |-> "", desc |-> <<"c", "d">>, timeout |-> Timeout] >>

\* Inputs of the handlers.
Descriptions == { <<>>, <<"b">>, <<"c">>, <<"d">>, <<"z">> }
SourceGroups == {3001, 2001}
Senders == {1001, 1002}
Groups == {2001, 2002}
NoneStr == "<None>"
MessageStrs == {"pong"}

VARIABLES
    now,                 \* time.time()
    rate_per_minute,     \* self.rate_per_minute
    request_timestamps,  \* self.request_timestamps
    pending_requests,    \* self.pending_requests, in insertion order
    issued,              \* every PendingRequest ever inserted; issued[id]
    uba,                 \* ids whose use_bot_action awaits its send (line 129)
    watchdog,            \* the _wait_timeout tasks, by request id
    matcher,             \* on_all_message calls that matched, by the id of
                         \* the request they resolved: "sending" while the
                         \* await of line 183 lasts, "stopped" once
                         \* event.stop_event() was called
    sent,                \* bag of the send_group_message calls issued
    returned,            \* what the last use_bot_action call yielded
    admitted,            \* times of the _rate_limited calls that returned False
    limited,             \* what the last _rate_limited call returned
    discarded,           \* ids terminate cleared from the table
    config_lines,        \* the known_bots_action lines given to _parse_actions
    parsed               \* what _parse_actions returned for them

vars == << now, rate_per_minute, request_timestamps, pending_requests, issued,
           uba, watchdog, matcher, sent, returned, admitted, limited,
           discarded, config_lines, parsed >>

Max(a, b) == IF a >= b THEN a ELSE b

(***************************************************************************)
(* The Correlation Table: a dict in insertion order.                       *)
(***************************************************************************)
Keys(table) == { table[i].id : i \in 1..Len(table) }

Get(table, id) == table[CHOOSE i \in 1..Len(table) : table[i].id = id]

\* the whole table dropped with the entry
Pop_Clear(table, id) == <<>>

Pop(table, id) == SelectSeq(table, LAMBDA e : e.id # id)

NoInfo == [id |-> 0, bot_id |-> 0, group_id |-> 0, source_group |-> 0,
           return_mode |-> "", expire_at |-> 0]

(***************************************************************************)
(* _rate_limited (lines 72-80).                                            *)
(***************************************************************************)
\* the window is never pruned
Prune_Never(ts, t) == ts

\* a timestamp exactly one window old kept
Prune_Inclusive(ts, t) == SelectSeq(ts, LAMBDA x : t - x <= Window)

Prune(ts, t) == SelectSeq(ts, LAMBDA x : t - x < Window)

\* the limit compared with > in place of >=
RateLimited_OffByOne(ts, n, t) ==
    LET kept == Prune(ts, t)
    IN  IF Len(kept) > n
        THEN [limited |-> TRUE, timestamps |-> kept]
        ELSE [limited |-> FALSE, timestamps |-> Append(kept, t)]

\* the timestamp recorded before the limit is tested
RateLimited_RecordsRejected(ts, n, t) ==
    LET kept == Prune(ts, t)
    IN  IF Len(kept) >= n
        THEN [limited |-> TRUE, timestamps |-> Append(kept, t)]
        ELSE [limited |-> FALSE, timestamps |-> Append(kept, t)]

RateLimited(ts, n, t) ==
    LET kept == Prune(ts, t)
    IN  IF Len(kept) >= n
        THEN [limited |-> TRUE, timestamps |-> kept]
        ELSE [limited |-> FALSE, timestamps |-> Append(kept, t)]

(***************************************************************************)
(* Capability lookup (lines 101-104): `action_desc in a["desc"]`, first    *)
(* match in the order of self.actions; 0 stands for None.                  *)
(***************************************************************************)
Contains(sub, s) ==
    \E i \in 0..(Len(s) - Len(sub)) : SubSeq(s, i + 1, i + Len(sub)) = sub

\* the first Action taken as the default of next()
FindAction_Default(action_desc) ==
    LET hits == { i \in 1..Len(actions) : Contains(action_desc, actions[i].desc) }
    IN  IF hits = {} THEN 1
        ELSE CHOOSE i \in hits : \A j \in hits : i <= j

\* the last matching Action taken in place of the first
FindAction_Last(action_desc) ==
    LET hits == { i \in 1..Len(actions) : Contains(action_desc, actions[i].desc) }
    IN  IF hits = {} THEN 0
        ELSE CHOOSE i \in hits : \A j \in hits : i >= j

FindAction(action_desc) ==
    LET hits == { i \in 1..Len(actions) : Contains(action_desc, actions[i].desc) }
    IN  IF hits = {} THEN 0
        ELSE CHOOSE i \in hits : \A j \in hits : i <= j

(***************************************************************************)
(* The PendingRequest of lines 117-123 and the messages sent.              *)
(***************************************************************************)
NewRequestId == Len(issued) + 1

\* expire_at set without the timeout
NewRequest_NoTimeout(id, action, target_group, source_group, t) ==
    [id |-> id, bot_id |-> action.bot_id, group_id |-> target_group,
     source_group |-> source_group, return_mode |-> action.return_mode,
     expire_at |-> t]

NewRequest(id, action, target_group, source_group, t) ==
    [id |-> id, bot_id |-> action.bot_id, group_id |-> target_group,
     source_group |-> source_group, return_mode |-> action.return_mode,
     expire_at |-> t + action.timeout]

Message(to, text, kind, id) ==
    [to |-> to, text |-> text, kind |-> kind, rid |-> id]

Send(bag, m) == bag (+) SetToBag({m})

CommandMessage(action, target_group, request_id) ==
    Message(target_group, <<action.command>>, "command", request_id)

TimeoutMessage(info, request_id) ==
    Message(info.source_group, <<timeout_message>>, "timeout", request_id)

MsgText(message_str) == IF message_str = NoneStr THEN "" ELSE message_str

ResultText(msg) == <<ResultMarker, msg>>

\* the result sent back to the group the command went to
ResultMessage_ToTarget(info, msg) ==
    Message(info.group_id, ResultText(msg), "result", info.id)

ResultMessage(info, msg) ==
    Message(info.source_group, ResultText(msg), "result", info.id)

(***************************************************************************)
(* use_bot_action up to its await (lines 97-132).                          *)
(***************************************************************************)
\* the lookup made before _rate_limited is called
UseBotAction_LookupFirst(action_desc, source_group) ==
    /\ now + Timeout <= MaxTime
    /\ LET rl == RateLimited(request_timestamps, rate_per_minute, now)
           a  == FindAction(action_desc)
       IN  IF a = 0
           THEN /\ returned' = NotFoundNotice
                /\ UNCHANGED << request_timestamps, limited, admitted,
                                pending_requests, issued, uba, sent >>
           ELSE IF Len(actions[a].groups) = 0
           THEN /\ returned' = unreachable_message
                /\ UNCHANGED << request_timestamps, limited, admitted,
                                pending_requests, issued, uba, sent >>
           ELSE /\ request_timestamps' = rl.timestamps
                /\ limited' = rl.limited
                /\ admitted' = IF rl.limited THEN admitted ELSE Append(admitted, now)
                /\ IF rl.limited
                   THEN /\ returned' = RateLimitNotice
                        /\ UNCHANGED << pending_requests, issued, uba, sent >>
                   ELSE \E k \in 1..Len(actions[a].groups) :
                          LET target_group == actions[a].groups[k]
                              request_id == NewRequestId
                              info == NewRequest(request_id, actions[a], target_group,
                                                 source_group, now)
                          IN  /\ pending_requests' = Append(pending_requests, info)
                              /\ issued' = Append(issued, info)
                              /\ sent' = Send(sent, CommandMessage(actions[a],
                                                       target_group, request_id))
                              /\ uba' = uba \cup {request_id}
                              /\ returned' = NoResult
    /\ UNCHANGED << now, rate_per_minute, watchdog, matcher, discarded >>
    /\ UNCHANGED << config_lines, parsed >>

UseBotAction(action_desc, source_group) ==
    /\ now + Timeout <= MaxTime
    /\ LET rl == RateLimited(request_timestamps, rate_per_minute, now)
           a  == FindAction(action_desc)
       IN  /\ request_timestamps' = rl.timestamps
           /\ limited' = rl.limited
           /\ admitted' = IF rl.limited THEN admitted ELSE Append(admitted, now)
           /\ IF rl.limited
              THEN /\ returned' = RateLimitNotice
                   /\ UNCHANGED << pending_requests, issued, uba, sent >>
              ELSE IF a = 0
              THEN /\ returned' = NotFoundNotice
                   /\ UNCHANGED << pending_requests, issued, uba, sent >>
              ELSE IF Len(actions[a].groups) = 0
              THEN /\ returned' = unreachable_message
                   /\ UNCHANGED << pending_requests, issued, uba, sent >>
              ELSE \E k \in 1..Len(actions[a].groups) :
                     LET target_group == actions[a].groups[k]
                         request_id == NewRequestId
                         info == NewRequest(request_id, actions[a], target_group,
                                            source_group, now)
                     IN  /\ pending_requests' = Append(pending_requests, info)
                         /\ issued' = Append(issued, info)
                         /\ sent' = Send(sent, CommandMessage(actions[a],
                                                  target_group, request_id))
                         /\ uba' = uba \cup {request_id}
                         /\ returned' = NoResult
    /\ UNCHANGED << now, rate_per_minute, watchdog, matcher, discarded >>
    /\ UNCHANGED << config_lines, parsed >>

(***************************************************************************)
(* use_bot_action after its await: asyncio.create_task (lines 134-136).    *)
(***************************************************************************)
\* the coroutine ends without asyncio.create_task
UseBotActionResume_NoTask(request_id) ==
    /\ request_id \in uba
    /\ uba' = uba \ {request_id}
    /\ UNCHANGED << now, rate_per_minute, request_timestamps, pending_requests,
                    issued, watchdog, matcher, sent, returned, admitted, limited,
                    discarded >>
    /\ UNCHANGED << config_lines, parsed >>

UseBotActionResume(request_id) ==
    /\ request_id \in uba
    /\ uba' = uba \ {request_id}
    /\ watchdog' = watchdog @@
                   (request_id :> [pc |-> "created", info |-> NoInfo, wake_at |-> 0])
    /\ UNCHANGED << now, rate_per_minute, request_timestamps, pending_requests,
                    issued, matcher, sent, returned, admitted, limited, discarded >>
    /\ UNCHANGED << config_lines, parsed >>

(***************************************************************************)
(* _wait_timeout (lines 141-155).                                          *)
(***************************************************************************)
\* the sleep left out
SleepUntil_Now(info, t) == t

SleepUntil(info, t) == t + Max(0, info.expire_at - t)

WaitTimeoutStart(request_id) ==
    /\ request_id \in DOMAIN watchdog
    /\ watchdog[request_id].pc = "created"
    /\ IF request_id \notin Keys(pending_requests)
       THEN watchdog' = [watchdog EXCEPT ![request_id].pc = "done"]
       ELSE LET info == Get(pending_requests, request_id)
            IN  watchdog' = [watchdog EXCEPT ![request_id] =
                    [pc |-> "sleeping", info |-> info,
                     wake_at |-> SleepUntil(info, now)]]
    /\ UNCHANGED << now, rate_per_minute, request_timestamps, pending_requests,
                    issued, uba, matcher, sent, returned, admitted, limited,
                    discarded >>
    /\ UNCHANGED << config_lines, parsed >>

\* the presence test left out
StillPending_Always(table, request_id) == TRUE

\* the presence test inverted
StillPending_Inverted(table, request_id) == request_id \notin Keys(table)

\* the table tested for being non-empty in place of the membership test
StillPending_NonEmpty(table, request_id) == table # <<>>

StillPending(table, request_id) == request_id \in Keys(table)

WaitTimeoutWake(request_id) ==
    /\ request_id \in DOMAIN watchdog
    /\ watchdog[request_id].pc = "sleeping"
    /\ now >= watchdog[request_id].wake_at
    /\ IF StillPending(pending_requests, request_id)
       THEN /\ pending_requests' = Pop(pending_requests, request_id)
            /\ sent' = Send(sent, TimeoutMessage(watchdog[request_id].info,
                                                 request_id))
            /\ watchdog' = [watchdog EXCEPT ![request_id].pc = "sending"]
       ELSE /\ watchdog' = [watchdog EXCEPT ![request_id].pc = "done"]
            /\ UNCHANGED << pending_requests, sent >>
    /\ UNCHANGED << now, rate_per_minute, request_timestamps, issued, uba,
                    matcher, returned, admitted, limited, discarded >>
    /\ UNCHANGED << config_lines, parsed >>

WaitTimeoutSent(request_id) ==
    /\ request_id \in DOMAIN watchdog
    /\ watchdog[request_id].pc = "sending"
    /\ watchdog' = [watchdog EXCEPT ![request_id].pc = "done"]
    /\ UNCHANGED << now, rate_per_minute, request_timestamps, pending_requests,
                    issued, uba, matcher, sent, returned, admitted, limited,
                    discarded >>
    /\ UNCHANGED << config_lines, parsed >>

(***************************************************************************)
(* on_all_message (lines 160-189).                                         *)
(***************************************************************************)
\* the sender test left out
Matches_AnySender(info, sender_id, group_id, at_me, t) ==
    /\ ~ (group_id # info.group_id)
    /\ ~ (t > info.expire_at)
    /\ ~ (info.return_mode = AtMode /\ ~ at_me)

\* the expiry test left out
Matches_NoExpiry(info, sender_id, group_id, at_me, t) ==
    /\ ~ (sender_id # info.bot_id)
    /\ ~ (group_id # info.group_id)
    /\ ~ (info.return_mode = AtMode /\ ~ at_me)

Matches(info, sender_id, group_id, at_me, t) ==
    /\ ~ (sender_id # info.bot_id)
    /\ ~ (group_id # info.group_id)
    /\ ~ (t > info.expire_at)
    /\ ~ (info.return_mode = AtMode /\ ~ at_me)

\* the table searched from its newest entry
FirstMatch_Last(table, sender_id, group_id, at_me, t) ==
    LET hits == { i \in 1..Len(table) :
                    Matches(table[i], sender_id, group_id, at_me, t) }
    IN  IF hits = {} THEN 0
        ELSE CHOOSE i \in hits : \A j \in hits : i >= j

FirstMatch(table, sender_id, group_id, at_me, t) ==
    LET hits == { i \in 1..Len(table) :
                    Matches(table[i], sender_id, group_id, at_me, t) }
    IN  IF hits = {} THEN 0
        ELSE CHOOSE i \in hits : \A j \in hits : i <= j

OnAllMessage(sender_id, group_id, message_str, at_me) ==
    /\ LET msg == MsgText(message_str)
           i   == FirstMatch(pending_requests, sender_id, group_id, at_me, now)
       IN  IF i = 0
           THEN UNCHANGED << pending_requests, sent, matcher >>
           ELSE LET info == pending_requests[i]
                IN  /\ pending_requests' = Pop(pending_requests, info.id)
                    /\ sent' = Send(sent, ResultMessage(info, msg))
                    /\ matcher' = matcher @@ (info.id :> "sending")
    /\ UNCHANGED << now, rate_per_minute, request_timestamps, issued, uba,
                    watchdog, returned, admitted, limited, discarded >>
    /\ UNCHANGED << config_lines, parsed >>

\* after the await of line 183: event.stop_event() and return
OnAllMessageResume(request_id) ==
    /\ request_id \in DOMAIN matcher
    /\ matcher[request_id] = "sending"
    /\ matcher' = [matcher EXCEPT ![request_id] = "stopped"]
    /\ UNCHANGED << now, rate_per_minute, request_timestamps, pending_requests,
                    issued, uba, watchdog, sent, returned, admitted, limited,
                    discarded >>
    /\ UNCHANGED << config_lines, parsed >>

(***************************************************************************)
(* terminate (lines 191-193).                                              *)
(***************************************************************************)
\* the table left as it is
Terminate_KeepsTable ==
    /\ pending_requests' = pending_requests
    /\ discarded' = discarded \cup Keys(pending_requests)
    /\ UNCHANGED << now, rate_per_minute, request_timestamps, issued, uba,
                    watchdog, matcher, sent, returned, admitted, limited >>
    /\ UNCHANGED << config_lines, parsed >>

Terminate ==
    /\ pending_requests' = <<>>
    /\ discarded' = discarded \cup Keys(pending_requests)
    /\ UNCHANGED << now, rate_per_minute, request_timestamps, issued, uba,
                    watchdog, matcher, sent, returned, admitted, limited >>
    /\ UNCHANGED << config_lines, parsed >>

(***************************************************************************)
(* The clock.                                                              *)
(***************************************************************************)
Tick ==
    /\ now < MaxTime
    /\ now' = now + 1
    /\ UNCHANGED << rate_per_minute, request_timestamps, pending_requests,
                    issued, uba, watchdog, matcher, sent, returned, admitted,
                    limited, discarded >>
    /\ UNCHANGED << config_lines, parsed >>

(***************************************************************************)
(* __init__ (lines 21-43).                                                 *)
(***************************************************************************)
Init ==
    /\ now = 0
    /\ rate_per_minute = RatePerMinute
    /\ request_timestamps = <<>>
    /\ pending_requests = <<>>
    /\ issued = <<>>
    /\ uba = {}
    /\ watchdog = <<>>
    /\ matcher = <<>>
    /\ sent = EmptyBag
    /\ returned = NoResult
    /\ admitted = <<>>
    /\ limited = FALSE
    /\ discarded = {}
    /\ config_lines = <<>>
    /\ parsed = <<>>

Next ==
    \/ \E d \in Descriptions, g \in SourceGroups : UseBotAction(d, g)
    \/ \E r \in uba : UseBotActionResume(r)
    \/ \E r \in DOMAIN watchdog : WaitTimeoutStart(r)
    \/ \E r \in DOMAIN watchdog : WaitTimeoutWake(r)
    \/ \E r \in DOMAIN watchdog : WaitTimeoutSent(r)
    \/ \E s \in Senders, g \in Groups, m \in MessageStrs, a \in BOOLEAN :
          OnAllMessage(s, g, m, a)
    \/ \E r \in DOMAIN matcher : OnAllMessageResume(r)
    \/ Terminate
    \/ Tick

Spec == Init /\ [][Next]_vars

(***************************************************************************)
(* The event loop runs every task that is ready, every awaited send        *)
(* returns, and the clock advances.                                        *)
(***************************************************************************)
RequestIds == 1..RatePerMinute

Fairness ==
    /\ WF_vars(Tick)
    /\ \A r \in RequestIds :
          /\ WF_vars(UseBotActionResume(r))
          /\ WF_vars(WaitTimeoutStart(r))
          /\ WF_vars(WaitTimeoutWake(r))
          /\ WF_vars(WaitTimeoutSent(r))
          /\ WF_vars(OnAllMessageResume(r))

FairSpec == Spec /\ Fairness

\* only: the send awaited by a matching on_all_message returns
FairReplies == Spec /\ \A r \in RequestIds : WF_vars(OnAllMessageResume(r))

(***************************************************************************)
(* The rate limiter alone: _rate_limited called at any time of a clock     *)
(* that runs past the 60-second window, for every configured limit.        *)
(***************************************************************************)
RateLimitedCall ==
    /\ Len(admitted) < MaxAdmits
    /\ LET rl == RateLimited(request_timestamps, rate_per_minute, now)
       IN  /\ request_timestamps' = rl.timestamps
           /\ limited' = rl.limited
           /\ admitted' = IF rl.limited THEN admitted ELSE Append(admitted, now)
    /\ UNCHANGED << now, rate_per_minute, pending_requests, issued, uba,
                    watchdog, matcher, sent, returned, discarded >>
    /\ UNCHANGED << config_lines, parsed >>

TickRate ==
    /\ now < MaxRateTime
    /\ now' = now + 1
    /\ UNCHANGED << rate_per_minute, request_timestamps, pending_requests,
                    issued, uba, watchdog, matcher, sent, returned, admitted,
                    limited, discarded >>
    /\ UNCHANGED << config_lines, parsed >>

InitRate ==
    /\ now = 0
    /\ rate_per_minute \in 0..MaxRate
    /\ request_timestamps = <<>>
    /\ pending_requests = <<>>
    /\ issued = <<>>
    /\ uba = {}
    /\ watchdog = <<>>
    /\ matcher = <<>>
    /\ sent = EmptyBag
    /\ returned = NoResult
    /\ admitted = <<>>
    /\ limited = FALSE
    /\ discarded = {}
    /\ config_lines = <<>>
    /\ parsed = <<>>

NextRate == RateLimitedCall \/ TickRate

SpecRate == InitRate /\ [][NextRate]_vars

(***************************************************************************)
(* _parse_actions (lines 48-67).  A line is a sequence of one-character    *)
(* strings.  The lines given are built from fields joined with ";": the    *)
(* bot_id is a number, a non-number or empty, the groups are numbers, hold *)
(* a non-number or an empty item, or are empty; one line has four fields,  *)
(* one has a sixth, one is empty.  Of what int() accepts, the model covers *)
(* blanks around the digits and a sign in front of them.                   *)
(***************************************************************************)
MaxLines == 3         \* lines of one known_bots_action batch

DigitValue ==
    ("0" :> 0) @@ ("1" :> 1) @@ ("2" :> 2) @@ ("3" :> 3) @@ ("4" :> 4) @@
    ("5" :> 5) @@ ("6" :> 6) @@ ("7" :> 7) @@ ("8" :> 8) @@ ("9" :> 9)

\* str.split(sep, maxsplit); maxsplit = -1 is no limit
RECURSIVE Split(_, _, _)
Split(s, sep, maxsplit) ==
    IF maxsplit = 0 \/ \A i \in 1..Len(s) : s[i] # sep
    THEN << s >>
    ELSE LET i == CHOOSE k \in 1..Len(s) :
                    s[k] = sep /\ \A j \in 1..(k - 1) : s[j] # sep
         IN  << SubSeq(s, 1, i - 1) >> \o
             Split(SubSeq(s, i + 1, Len(s)), sep, maxsplit - 1)

\* str.strip()
RECURSIVE Strip(_)
Strip(s) ==
    IF s = <<>> THEN s
    ELSE IF Head(s) = " " THEN Strip(Tail(s))
    ELSE IF s[Len(s)] = " " THEN Strip(SubSeq(s, 1, Len(s) - 1))
    ELSE s

\* the digits of a numeral: blanks around it and one sign in front dropped
Numeral(s) ==
    LET t == Strip(s)
    IN  IF t # <<>> /\ Head(t) \in {"+", "-"} THEN Tail(t) ELSE t

\* int(s) does not raise ValueError
IsInt(s) ==
    /\ Numeral(s) # <<>>
    /\ \A i \in 1..Len(Numeral(s)) : Numeral(s)[i] \in DOMAIN DigitValue

RECURSIVE DigitsValue(_)
DigitsValue(ds) ==
    IF ds = <<>> THEN 0
    ELSE 10 * DigitsValue(SubSeq(ds, 1, Len(ds) - 1)) + DigitValue[ds[Len(ds)]]

\* int(s)
IntOf(s) ==
    IF Strip(s)[1] = "-" THEN 0 - DigitsValue(Numeral(s)) ELSE DigitsValue(Numeral(s))

\* line.split(";", 4)
Fields(line) == Split(line, ";", 4)

\* the items of groups.split(",") that are not empty
GroupItems(groups) == SelectSeq(Split(groups, ",", 0 - 1), LAMBDA g : g # <<>>)

\* the body of the try runs without an exception: the split yields the five
\* values the assignment unpacks, and every int() succeeds
ParsesLine(line) ==
    /\ Len(Fields(line)) = 5
    /\ IsInt(Fields(line)[1])
    /\ \A k \in 1..Len(GroupItems(Fields(line)[2])) :
          IsInt(GroupItems(Fields(line)[2])[k])

\* the Action of lines 54-62; id is fresh, `line` records where it came from
ParsedAction(line, id, k) ==
    LET f == Fields(line)
    IN  [id |-> id,
         bot_id |-> IntOf(f[1]),
         groups |-> [j \in 1..Len(GroupItems(f[2])) |-> IntOf(GroupItems(f[2])[j])],
         command |-> f[3],
         return_mode |-> Strip(f[4]),
         desc |-> Strip(f[5]),
         timeout |-> Timeout,
         line |-> k]

\* the try placed around the loop: the first bad line ends the parse
RECURSIVE ParseLoop_AbortOnError(_, _, _)
ParseLoop_AbortOnError(lines, k, acc) ==
    IF k > Len(lines) THEN acc
    ELSE IF ParsesLine(lines[k])
         THEN ParseLoop_AbortOnError(lines, k + 1,
                  Append(acc, ParsedAction(lines[k], Len(acc) + 1, k)))
         ELSE acc

\* the for loop of lines 51-65, from line k on
RECURSIVE ParseLoop(_, _, _)
ParseLoop(lines, k, acc) ==
    IF k > Len(lines) THEN acc
    ELSE IF ParsesLine(lines[k])
         THEN ParseLoop(lines, k + 1,
                  Append(acc, ParsedAction(lines[k], Len(acc) + 1, k)))
         ELSE ParseLoop(lines, k + 1, acc)

ParseActions_AbortOnError(lines) == ParseLoop_AbortOnError(lines, 1, <<>>)

ParseActions(lines) == ParseLoop(lines, 1, <<>>)

\* the lines of the configuration
RECURSIVE Join(_, _)
Join(fields, sep) ==
    IF Len(fields) = 0 THEN <<>>
    ELSE IF Len(fields) = 1 THEN fields[1]
    ELSE fields[1] \o << sep >> \o Join(Tail(fields), sep)

BotFields == { <<"1", "2">>, <<"x">> }
GroupsFields == { <<"3", ",", "4">>, <<"3", ",", "x">>, <<",", "3">> }

Lines ==
    { Join(<< b, g, <<"p">>, <<" ", "@">>, <<"d">> >>, ";") :
        b \in BotFields, g \in GroupsFields }
    \cup { Join(<< <<"1", "2">>, <<"3">>, <<"p">>, <<"@">> >>, ";"),
           Join(<< <<"1", "2">>, <<>>, <<"p">>, <<>>, <<"d">>, <<"e">> >>, ";"),
           Join(<< <<>>, <<"3">>, <<"p">>, <<>>, <<"d">> >>, ";"),
           <<>> }

Batches == UNION { [1..n -> Lines] : n \in 0..MaxLines }

\* __init__, lines 36-38: self.actions = self._parse_actions(<the lines>)
ParseActionsCall(lines) ==
    /\ config_lines = <<>>
    /\ config_lines' = lines
    /\ parsed' = ParseActions(lines)
    /\ UNCHANGED << now, rate_per_minute, request_timestamps, pending_requests,
                    issued, uba, watchdog, matcher, sent, returned, admitted,
                    limited, discarded >>

NextParse == \E lines \in Batches : ParseActionsCall(lines)

SpecParse == Init /\ [][NextParse]_vars

(***************************************************************************)
(* Vocabulary of the properties.                                           *)
(***************************************************************************)
RECURSIVE SumCopies(_)
SumCopies(S) ==
    IF S = {} THEN 0
    ELSE LET m == CHOOSE x \in S : TRUE
         IN  CopiesIn(m, sent) + SumCopies(S \ {m})

\* the sends of one kind made for request r
SentFor(r, kinds) == { m \in BagToSet(sent) : m.rid = r /\ m.kind \in kinds }

\* the deliveries made for request r: result messages plus timeout messages
Deliveries(r) == SumCopies(SentFor(r, {"result", "timeout"}))

\* this step issues exactly the one send m
Sends(m) == sent' = sent (+) SetToBag({m})

\* the four matching conditions of the Reply Matcher
Eligible(e, sender_id, group_id, at_me, t) ==
    /\ sender_id = e.bot_id
    /\ group_id = e.group_id
    /\ t <= e.expire_at
    /\ (e.return_mode # "@" \/ at_me)

\* the entries of the table a message is eligible for
EligibleEntries(sender_id, group_id, at_me) ==
    { i \in 1..Len(pending_requests) :
        Eligible(pending_requests[i], sender_id, group_id, at_me, now) }

\* stop_event() was called on the event that resolved request r
Stopped(r) == IF r \in DOMAIN matcher THEN matcher[r] = "stopped" ELSE FALSE

\* the entries of the table this step removes
Removed == { e \in { pending_requests[i] : i \in 1..Len(pending_requests) } :
               \A j \in 1..Len(pending_requests') : pending_requests'[j].id # e.id }

(***************************************************************************)
(* C1.  No request is delivered twice: in every reachable state, whatever  *)
(* the interleaving of the Watchdog, on_all_message and terminate, the     *)
(* result and timeout messages sent for one request id number at most one. *)
(***************************************************************************)
C1_AtMostOneDelivery ==
    \A r \in DOMAIN issued : Deliveries(r) <= 1

\* a request the Reply Matcher resolved and whose Watchdog woke afterwards
C1_Witness ==
    \E r \in DOMAIN issued :
        /\ r \in DOMAIN matcher
        /\ r \in DOMAIN watchdog
        /\ watchdog[r].pc = "done"
        /\ watchdog[r].info.id = r
        /\ Deliveries(r) = 1

DeliveredOnce(r) ==
    /\ Deliveries(r) = 1
    /\ \A m \in SentFor(r, {"result", "timeout"}) : m.to = issued[r].source_group

C3_MatchOnlyIfEligible ==
    [][ \A s \in Senders, g \in Groups, m \in MessageStrs, a \in BOOLEAN :
          OnAllMessage(s, g, m, a) =>
            /\ \A e \in Removed : Eligible(e, s, g, a, now)
            /\ EligibleEntries(s, g, a) = {} =>
                 /\ pending_requests' = pending_requests
                 /\ sent' = sent
                 /\ matcher' = matcher ]_vars

\* a reply was accepted while another entry, already expired, stays unmatched
C3_Witness ==
    /\ \E r \in DOMAIN matcher : Deliveries(r) = 1
    /\ \E i \in 1..Len(pending_requests) : now > pending_requests[i].expire_at

(***************************************************************************)
(* C4.  When a message is eligible for some pending entry, on_all_message  *)
(* removes one such entry, sends the message's text behind the result      *)
(* marker to the source_group of that same entry, and the handler goes on  *)
(* to call stop_event on the event once the send has returned.             *)
(***************************************************************************)
C4_MatchDelivers ==
    /\ [][ \A s \in Senders, g \in Groups, m \in MessageStrs, a \in BOOLEAN :
             (OnAllMessage(s, g, m, a) /\ EligibleEntries(s, g, a) # {}) =>
                \E i \in EligibleEntries(s, g, a) :
                   LET e == pending_requests[i]
                   IN  /\ Removed = {e}
                       /\ Sends([to |-> e.source_group, text |-> <<ResultMarker, m>>,
                                 kind |-> "result", rid |-> e.id])
                       /\ e.id \notin DOMAIN matcher
                       /\ e.id \in DOMAIN matcher'
                       /\ matcher'[e.id] = "sending" ]_vars
    /\ \A r \in RequestIds : (r \in DOMAIN matcher) ~> Stopped(r)

\* two results delivered, to two different source groups, both events stopped
C4_Witness ==
    \E r, q \in DOMAIN matcher :
        /\ Stopped(r) /\ Stopped(q)
        /\ issued[r].source_group # issued[q].source_group
        /\ DeliveredOnce(r) /\ DeliveredOnce(q)

(***************************************************************************)
(* Vocabulary of the rate-limiter properties.                              *)
(***************************************************************************)
\* the admitted calls made in the 60 seconds that end at time t
AdmittedIn(t) ==
    { i \in 1..Len(admitted) : admitted[i] <= t /\ t - admitted[i] < 60 }

\* the recorded timestamps younger than 60 seconds
YoungStamps ==
    { i \in 1..Len(request_timestamps) : now - request_timestamps[i] < 60 }

Stamps(ts) == { ts[i] : i \in 1..Len(ts) }

(***************************************************************************)
(* C5.  With rate_per_minute = N, the admitted calls of any 60-second      *)
(* window (a window that ends at an admitted call and reaches back less    *)
(* than 60 seconds) never number more than N; a call made when N calls     *)
(* were admitted in the last 60 seconds is rejected, and a rejected call   *)
(* records no timestamp.                                                   *)
(***************************************************************************)
C5_WindowNeverExceeded ==
    /\ [](\A i \in 1..Len(admitted) :
            Cardinality(AdmittedIn(admitted[i])) <= rate_per_minute)
    /\ [][ (RateLimitedCall /\ Cardinality(AdmittedIn(now)) >= rate_per_minute) =>
             /\ limited'
             /\ admitted' = admitted
             /\ Len(request_timestamps') <= Len(request_timestamps)
             /\ Stamps(request_timestamps') \subseteq Stamps(request_timestamps)
         ]_vars

\* a call was rejected after the window had already slid once
C5_Witness ==
    /\ limited
    /\ rate_per_minute >= 1
    /\ Len(admitted) > rate_per_minute
    /\ Cardinality(AdmittedIn(now)) = rate_per_minute

(***************************************************************************)
(* C6.  With rate_per_minute = N >= 1 and N recorded timestamps, a call    *)
(* made when the oldest recorded timestamp is more than 60 seconds old is  *)
(* accepted and records its own timestamp.                                 *)
(***************************************************************************)
C6_AdmitsAfterWindow ==
    [][ ( /\ RateLimitedCall
          /\ rate_per_minute >= 1
          /\ Len(request_timestamps) = rate_per_minute
          /\ now - request_timestamps[1] > 60 ) =>
            /\ ~ limited'
            /\ admitted' = Append(admitted, now)
            /\ Len(request_timestamps') >= 1
            /\ request_timestamps'[Len(request_timestamps')] = now ]_vars

\* the call after a full window aged out was admitted
C6_Witness ==
    /\ ~ limited
    /\ rate_per_minute >= 1
    /\ Len(admitted) = rate_per_minute + 1
    /\ admitted[Len(admitted)] - admitted[1] > 60
    /\ request_timestamps # <<>>
    /\ request_timestamps[Len(request_timestamps)] = now

(***************************************************************************)
(* C7.  use_bot_action called while the window holds rate_per_minute       *)
(* timestamps younger than 60 seconds yields the rate-limit notice and     *)
(* changes nothing else: no entry, no send, no Watchdog (nor a coroutine   *)
(* that would create one), no timestamp.                                   *)
(***************************************************************************)
C7_RateLimitedNoEffect ==
    [][ \A d \in Descriptions, g \in SourceGroups :
          (UseBotAction(d, g) /\ Cardinality(YoungStamps) >= rate_per_minute) =>
             /\ returned' = RateLimitNotice
             /\ pending_requests' = pending_requests
             /\ issued' = issued
             /\ sent' = sent
             /\ uba' = uba
             /\ watchdog' = watchdog
             /\ request_timestamps' = request_timestamps ]_vars

\* a call was refused with the window full and a request still pending
C7_Witness ==
    /\ returned = RateLimitNotice
    /\ Len(request_timestamps) = rate_per_minute
    /\ Cardinality(YoungStamps) = rate_per_minute
    /\ pending_requests # <<>>

(***************************************************************************)
(* Vocabulary of the dispatch properties.                                  *)
(***************************************************************************)
IsSubstring(sub, s) ==
    \E k \in 0..Len(s) :
        /\ k + Len(sub) <= Len(s)
        /\ \A x \in 1..Len(sub) : s[k + x] = sub[x]

\* the Actions whose desc contains the description, and the one selected
MatchingActions(d) == { i \in 1..Len(actions) : IsSubstring(d, actions[i].desc) }

Matched(d) == CHOOSE i \in MatchingActions(d) : \A j \in MatchingActions(d) : i <= j

NothingDispatched ==
    /\ pending_requests' = pending_requests
    /\ issued' = issued
    /\ sent' = sent
    /\ uba' = uba
    /\ watchdog' = watchdog

(***************************************************************************)
(* C8.  An admitted use_bot_action call yields NotFound when no Action's   *)
(* desc contains the description and the configured unreachable message    *)
(* when the matched Action has no groups; either way it adds no entry,     *)
(* issues no send and creates no Watchdog.                                 *)
(***************************************************************************)
C8_NotFoundUnreachable ==
    [][ \A d \in Descriptions, g \in SourceGroups :
          (UseBotAction(d, g) /\ ~ limited') =>
             /\ MatchingActions(d) = {} =>
                  (returned' = NotFoundNotice /\ NothingDispatched)
             /\ (MatchingActions(d) # {} /\ actions[Matched(d)].groups = <<>>) =>
                  (returned' = unreachable_message /\ NothingDispatched) ]_vars

\* two admitted calls, the last one Unreachable, and nothing was dispatched
C8_Witness ==
    /\ returned = unreachable_message
    /\ Len(admitted) = 2
    /\ issued = <<>>
    /\ sent = EmptyBag

(***************************************************************************)
(* C9.  An admitted call whose matched Action has groups appends exactly   *)
(* one entry, under an id never used before, with bot_id and return_mode   *)
(* of that Action, group_id one of its groups, source_group the caller's   *)
(* group and expire_at = now + timeout, and sends the Action's command to  *)
(* that group_id.                                                          *)
(***************************************************************************)
C9_DispatchInserts ==
    [][ \A d \in Descriptions, g \in SourceGroups :
          ( /\ UseBotAction(d, g)
            /\ ~ limited'
            /\ MatchingActions(d) # {}
            /\ actions[Matched(d)].groups # <<>> ) =>
              LET a == actions[Matched(d)]
                  e == pending_requests'[Len(pending_requests')]
              IN  /\ pending_requests' = Append(pending_requests, e)
                  /\ e.id \notin DOMAIN issued
                  /\ e.id \notin Keys(pending_requests)
                  /\ e.bot_id = a.bot_id
                  /\ e.return_mode = a.return_mode
                  /\ e.group_id \in Stamps(a.groups)
                  /\ e.source_group = g
                  /\ e.expire_at = now + a.timeout
                  /\ Sends([to |-> e.group_id, text |-> <<a.command>>,
                            kind |-> "command", rid |-> e.id]) ]_vars

\* two requests pending, dispatched at different times for different Actions
C9_Witness ==
    /\ Len(pending_requests) = 2
    /\ pending_requests[1].return_mode # pending_requests[2].return_mode
    /\ pending_requests[1].expire_at # pending_requests[2].expire_at
    /\ pending_requests[1].id # pending_requests[2].id

(***************************************************************************)
(* C10.  No step sends a timeout message for a request before the          *)
(* request's expire_at; and a Watchdog that wakes with its entry still in  *)
(* the table removes the entry and sends the configured timeout message to *)
(* the entry's source_group.                                               *)
(***************************************************************************)
C10_TimeoutNotEarly ==
    [][ \A r \in DOMAIN issued :
          /\ (\E to \in SourceGroups \cup Groups \cup {0} :
                Sends([to |-> to, text |-> <<timeout_message>>,
                       kind |-> "timeout", rid |-> r]))
               => now >= issued[r].expire_at
          /\ (WaitTimeoutWake(r) /\ r \in Keys(pending_requests)) =>
                /\ Removed = {issued[r]}
                /\ Sends([to |-> issued[r].source_group,
                          text |-> <<timeout_message>>,
                          kind |-> "timeout", rid |-> r]) ]_vars

\* a timeout was delivered by a Watchdog that started after the expiry
C10_Witness ==
    \E r \in DOMAIN watchdog :
        /\ watchdog[r].pc \in {"sending", "done"}
        /\ watchdog[r].info.id = r
        /\ watchdog[r].wake_at > issued[r].expire_at
        /\ SentFor(r, {"timeout"}) # {}

(***************************************************************************)
(* Vocabulary of the expiry and teardown properties.                       *)
(***************************************************************************)
\* this step issues a send of the given kind for request r
SendsFor(r, kind) ==
    \E m \in BagToSet(sent') :
        /\ m.rid = r
        /\ m.kind = kind
        /\ CopiesIn(m, sent') > CopiesIn(m, sent)

\* the entries of a table, as a set
Entries(table) == { table[i] : i \in 1..Len(table) }

(***************************************************************************)
(* C11.  An entry still in the table after its expire_at is never matched: *)
(* no step sends a result for a request at a time later than the request's *)
(* expire_at, and an on_all_message step leaves every entry whose          *)
(* expire_at has passed in the table, as it was.                           *)
(***************************************************************************)
C11_ExpiredNeverMatched ==
    [][ /\ sent' # sent =>
              \A r \in DOMAIN issued :
                  SendsFor(r, "result") => now <= issued[r].expire_at
        /\ pending_requests' # pending_requests =>
              \A s \in Senders, g \in Groups, m \in MessageStrs, a \in BOOLEAN :
                  OnAllMessage(s, g, m, a) =>
                    \A e \in Entries(pending_requests) :
                        now > e.expire_at => e \in Entries(pending_requests') ]_vars

\* an expired entry whose Watchdog still sleeps, in the table and undelivered
C11_Witness ==
    \E e \in Entries(pending_requests) :
        /\ now > e.expire_at
        /\ e.id \in DOMAIN watchdog
        /\ watchdog[e.id].pc = "sleeping"
        /\ Deliveries(e.id) = 0

(***************************************************************************)
(* C12.  A Watchdog that finds its request id absent from the table, when  *)
(* it first runs or when it wakes from its sleep, is a no-op: the step     *)
(* sends nothing, leaves the table unchanged, and the task ends.           *)
(***************************************************************************)
C12_AbsentWatchdogNoOp ==
    [][ \A r \in DOMAIN watchdog :
          ( /\ WaitTimeoutStart(r) \/ WaitTimeoutWake(r)
            /\ \A e \in Entries(pending_requests) : e.id # r ) =>
              /\ sent' = sent
              /\ pending_requests' = pending_requests
              /\ watchdog'[r].pc = "done" ]_vars

\* the Reply Matcher consumed two requests first: the Watchdog of one found
\* it absent when it first ran, the Watchdog of the other when it woke
C12_Witness ==
    \E r, q \in DOMAIN matcher :
        /\ r \in DOMAIN watchdog /\ q \in DOMAIN watchdog
        /\ watchdog[r].pc = "done" /\ watchdog[r].info.id = 0
        /\ watchdog[q].pc = "done" /\ watchdog[q].info.id = q
        /\ SentFor(r, {"timeout"}) = {} /\ SentFor(q, {"timeout"}) = {}

(***************************************************************************)
(* C13.  terminate empties the table and sends nothing, and no later step  *)
(* sends a timeout message for a request that terminate cleared, whether   *)
(* its Watchdog had not yet started, was sleeping or was due to wake.      *)
(***************************************************************************)
C13_NoTimeoutAfterTerminate ==
    [][ /\ Terminate => (pending_requests' = <<>> /\ sent' = sent)
        /\ \A r \in discarded : ~ SendsFor(r, "timeout") ]_vars

\* terminate cleared two requests: the Watchdog of one had not started, the
\* Watchdog of the other slept through it and woke after the expiry
C13_Witness ==
    \E r, q \in discarded :
        /\ r \in DOMAIN watchdog /\ q \in DOMAIN watchdog
        /\ watchdog[r].pc = "done" /\ watchdog[r].info.id = r
        /\ watchdog[r].wake_at <= now
        /\ watchdog[q].pc = "done" /\ watchdog[q].info.id = 0
        /\ Deliveries(r) = 0 /\ Deliveries(q) = 0

(***************************************************************************)
(* C14.  One on_all_message step removes at most one entry from the table  *)
(* and issues at most one send, a result for at most one request, however  *)
(* many entries the message is eligible for (a step that changes neither   *)
(* the table nor the sends removes and sends nothing).                     *)
(***************************************************************************)
C14_AtMostOneResolved ==
    [][ ( /\ pending_requests' # pending_requests \/ sent' # sent
          /\ \E s \in Senders, g \in Groups, m \in MessageStrs, a \in BOOLEAN :
                OnAllMessage(s, g, m, a) ) =>
            /\ Cardinality(Removed) <= 1
            /\ Len(pending_requests') = Len(pending_requests) - Cardinality(Removed)
            /\ BagCardinality(sent') <= BagCardinality(sent) + 1
            /\ Cardinality({ r \in DOMAIN issued : SendsFor(r, "result") }) <= 1
      ]_vars

\* two requests of one bot in one group, alike for every message, were
\* resolved one by one, each by a result of its own
C14_Witness ==
    \E r, q \in DOMAIN matcher :
        /\ r # q
        /\ issued[r].bot_id = issued[q].bot_id
        /\ issued[r].group_id = issued[q].group_id
        /\ issued[r].return_mode = issued[q].return_mode
        /\ issued[r].expire_at = issued[q].expire_at
        /\ SumCopies(SentFor(r, {"result"})) = 1
        /\ SumCopies(SentFor(q, {"result"})) = 1

(***************************************************************************)
(* C15.  The lookup of use_bot_action selects the first Action, in the     *)
(* order of self.actions, whose desc contains the description: a call that *)
(* dispatches inserts bot_id, return_mode and a group of that Action and   *)
(* sends its command, and the command of no other Action; an admitted call *)
(* that dispatches nothing found no Action, or found that the first one    *)
(* has no groups.                                                          *)
(***************************************************************************)
C15_FirstActionSelected ==
    [][ admitted' # admitted =>
          \A d \in Descriptions, g \in SourceGroups :
            UseBotAction(d, g) =>
              IF pending_requests' # pending_requests
              THEN LET e == pending_requests'[Len(pending_requests')]
                   IN  /\ MatchingActions(d) # {}
                       /\ e.bot_id = actions[Matched(d)].bot_id
                       /\ e.return_mode = actions[Matched(d)].return_mode
                       /\ e.group_id \in Stamps(actions[Matched(d)].groups)
                       /\ \A j \in 1..Len(actions) :
                            Sends([to |-> e.group_id,
                                   text |-> <<actions[j].command>>,
                                   kind |-> "command", rid |-> e.id])
                              <=> j = Matched(d)
              ELSE \/ MatchingActions(d) = {} /\ returned' = NotFoundNotice
                   \/ /\ MatchingActions(d) # {}
                      /\ actions[Matched(d)].groups = <<>>
                      /\ returned' = unreachable_message ]_vars

\* the last call dispatched the second Action: its description is also
\* contained in the desc of the third, which has no groups
C15_Witness ==
    /\ returned = NoResult
    /\ issued # <<>>
    /\ LET e == issued[Len(issued)]
       IN  /\ e.bot_id = actions[2].bot_id
           /\ e.return_mode = actions[2].return_mode
           /\ \E m \in SentFor(e.id, {"command"}) : m.text = <<actions[2].command>>
    /\ Cardinality(MatchingActions(<<"c">>)) = 2
    /\ Cardinality(MatchingActions(<<"b">>)) = 2

(***************************************************************************)
(* Vocabulary of the configuration properties.                             *)
(***************************************************************************)
\* the positions of character c in a line, and how many they are
Positions(line, c) == { i \in 1..Len(line) : line[i] = c }

Count(line, c) == Cardinality(Positions(line, c))

\* the position of the n-th ";" of a line (0 for n = 0)
Semicolon(line, n) ==
    IF n = 0 THEN 0
    ELSE CHOOSE i \in Positions(line, ";") :
            Cardinality({ j \in Positions(line, ";") : j <= i }) = n

\* the text between the (n-1)-th and the n-th ";"
FieldText(line, n) ==
    SubSeq(line, Semicolon(line, n - 1) + 1, Semicolon(line, n) - 1)

\* a text of decimal digits, at least one
Numeric(s) ==
    /\ s # <<>>
    /\ \A i \in 1..Len(s) :
          s[i] \in {"0", "1", "2", "3", "4", "5", "6", "7", "8", "9"}

\* every group id of a groups field (the texts between its commas) is numeric
GroupIdsNumeric(s) ==
    \A i \in 1..Len(s) :
        s[i] \in {",", "0", "1", "2", "3", "4", "5", "6", "7", "8", "9"}

NumericIds(line) ==
    /\ Numeric(FieldText(line, 1))
    /\ GroupIdsNumeric(FieldText(line, 2))

\* exactly the five fields, with numeric identifiers
FiveNumericFields(line) == Count(line, ";") = 4 /\ NumericIds(line)

\* at least the five fields, with numeric identifiers
FiveOrMoreNumericFields(line) == Count(line, ";") >= 4 /\ NumericIds(line)

\* the k-th smallest member of a set of numbers
Nth(S, k) == CHOOSE x \in S : Cardinality({ y \in S : y <= x }) = k

(***************************************************************************)
(* C16.  As claimed: _parse_actions yields one Action, in input order, for *)
(* every line that has exactly five fields and numeric identifiers, and    *)
(* none for any other line.                                                *)
(***************************************************************************)
C16_ExactlyFiveFields ==
    LET good == { k \in 1..Len(config_lines) : FiveNumericFields(config_lines[k]) }
    IN  /\ Len(parsed) = Cardinality(good)
        /\ \A i \in 1..Len(parsed) : parsed[i].line = Nth(good, i)

(***************************************************************************)
(* C16, amended.  _parse_actions yields one Action, in input order, for    *)
(* every line that has at least four ";" and numeric identifiers, the      *)
(* fifth field reaching to the end of the line, and none for a line with   *)
(* fewer than five fields or with a non-numeric identifier.                *)
(***************************************************************************)
C16_BadLinesSkipped ==
    LET good == { k \in 1..Len(config_lines) :
                    FiveOrMoreNumericFields(config_lines[k]) }
    IN  /\ Len(parsed) = Cardinality(good)
        /\ \A i \in 1..Len(parsed) :
              /\ parsed[i].line = Nth(good, i)
              /\ Count(parsed[i].desc, ";")
                   = Count(config_lines[parsed[i].line], ";") - 4

\* a batch parsed: a bad line between two good ones, the last with a sixth
\* field, and an Action for each of the good ones
C16_Witness ==
    /\ Len(config_lines) = 3
    /\ FiveNumericFields(config_lines[1])
    /\ ~ FiveOrMoreNumericFields(config_lines[2])
    /\ Count(config_lines[3], ";") = 5
    /\ Len(parsed) = 2
    /\ parsed[1].line = 1
    /\ parsed[2].line = 3

C18_EarliestResolved ==
    [][ pending_requests' # pending_requests =>
          \A s \in Senders, g \in Groups, m \in MessageStrs, a \in BOOLEAN :
            (OnAllMessage(s, g, m, a) /\ Cardinality(EligibleEntries(s, g, a)) >= 2) =>
               LET first == Nth(EligibleEntries(s, g, a), 1)
                   e == pending_requests[first]
               IN  /\ Removed = {e}
                   /\ SendsFor(e.id, "result")
                   /\ \A i \in EligibleEntries(s, g, a) \ {first} :
                         /\ e.id < pending_requests[i].id
                         /\ ~ SendsFor(pending_requests[i].id, "result")
                         /\ pending_requests'[i - 1] = pending_requests[i]
                         /\ Eligible(pending_requests'[i - 1], s, g, a, now')
                   /\ pending_requests' =
                        [j \in 1..(Len(pending_requests) - 1) |->
                           IF j < first THEN pending_requests[j]
                           ELSE pending_requests[j + 1]] ]_vars

\* the earlier of two like requests was resolved by a result; the later one
\* is in the table as it was inserted, unexpired, its Watchdog asleep
C18_Witness ==
    \E r \in DOMAIN matcher : \E e \in Entries(pending_requests) :
        /\ r < e.id
        /\ e = issued[e.id]
        /\ e.bot_id = issued[r].bot_id
        /\ e.group_id = issued[r].group_id
        /\ e.return_mode = issued[r].return_mode
        /\ e.expire_at = issued[r].expire_at
        /\ now <= e.expire_at
        /\ SumCopies(SentFor(r, {"result"})) = 1
        /\ Deliveries(e.id) = 0
        /\ e.id \in DOMAIN watchdog /\ watchdog[e.id].pc = "sleeping"

(***************************************************************************)
(* C19.  A use_bot_action call that ends in NotFound or Unreachable was    *)
(* admitted by the rate limiter first and has recorded its timestamp;      *)
(* and once rate_per_minute calls were admitted in the last 60 seconds,    *)
(* the next call is RateLimited, even when every one of them failed and no *)
(* request was ever dispatched.                                            *)
(***************************************************************************)
C19_FailedCallsUseSlots ==
    [][ /\ returned' \in {NotFoundNotice, unreachable_message} =>
              \A d \in Descriptions, g \in SourceGroups :
                  UseBotAction(d, g) =>
                    /\ Cardinality(YoungStamps) < rate_per_minute
                    /\ ~ limited'
                    /\ admitted' = Append(admitted, now)
                    /\ Len(request_timestamps') = Cardinality(YoungStamps) + 1
                    /\ request_timestamps'[Len(request_timestamps')] = now
                    /\ NothingDispatched
        /\ (issued = <<>> /\ Cardinality(AdmittedIn(now)) >= rate_per_minute) =>
              \A d \in Descriptions, g \in SourceGroups :
                  UseBotAction(d, g) =>
                    /\ returned' = RateLimitNotice
                    /\ limited'
                    /\ NothingDispatched ]_vars

\* the window was filled by failed calls alone, and the next call was refused
C19_Witness ==
    /\ returned = RateLimitNotice
    /\ limited
    /\ issued = <<>>
    /\ sent = EmptyBag
    /\ rate_per_minute >= 1
    /\ Len(admitted) = rate_per_minute
    /\ Cardinality(YoungStamps) = rate_per_minute

(***************************************************************************)
(* C20.  A _rate_limited call keeps the recorded timestamps less than 60   *)
(* seconds old and no other: a timestamp exactly 60 seconds old is         *)
(* dropped.  So with rate_per_minute = N >= 1 and N recorded timestamps, a *)
(* call made exactly 60 seconds after the oldest of them is accepted and   *)
(* records its own timestamp.                                              *)
(***************************************************************************)
C20_SixtySecondsOldDropped ==
    [][ RateLimitedCall =>
          /\ \A i \in 1..Len(request_timestamps) :
                (now - request_timestamps[i] >= 60) =>
                    (request_timestamps[i] = now
                       \/ request_timestamps[i] \notin Stamps(request_timestamps'))
          /\ \A i \in YoungStamps :
                request_timestamps[i] \in Stamps(request_timestamps')
          /\ ( /\ rate_per_minute >= 1
               /\ Len(request_timestamps) = rate_per_minute
               /\ now - request_timestamps[1] = 60 ) =>
                 /\ ~ limited'
                 /\ admitted' = Append(admitted, now)
                 /\ Len(request_timestamps') >= 1
                 /\ request_timestamps'[Len(request_timestamps')] = now
                 /\ request_timestamps[1] \notin Stamps(request_timestamps') ]_vars

\* with the window full, the call made exactly 60 seconds after the oldest
\* admitted call was admitted
C20_Witness ==
    /\ ~ limited
    /\ rate_per_minute >= 1
    /\ Len(admitted) = rate_per_minute + 1
    /\ admitted[Len(admitted)] - admitted[1] = 60
    /\ admitted[Len(admitted)] = now
    /\ admitted[1] \notin Stamps(request_timestamps)
    /\ now \in Stamps(request_timestamps)

====
